---- MODULE Spec2Model ----
(***************************************************************************)
(* State-machine model of AsimovSafetyEngine                               *)
(* (src/backend/python_api/core/asimov_rules.py).                          *)
(*                                                                         *)
(* Python values are records [t, s, n]: t is the Python type, s the text   *)
(* of a str, n the number of an int or bool.  A context (a dict) is a      *)
(* function from the names it holds to such values.  A call that raises    *)
(* is an outcome with raised = TRUE.                                       *)
(***************************************************************************)
EXTENDS Integers, Sequences, FiniteSets, TLC

VARIABLES
    emergency_stop_active,  \* AsimovSafetyEngine.emergency_stop_active
    safety_logs,            \* AsimovSafetyEngine.safety_logs
    last,                   \* the last call made on the engine and what it gave back
    log_effect,             \* what the last call did to safety_logs
    now,                    \* datetime.utcnow(), in seconds
    active_missions,        \* CognitiveEngine.active_missions: the status of each mission
    tasks,                  \* the execute_mission tasks of the event loop that have not ended
    response                \* what the last request handler answered

vars == <<emergency_stop_active, safety_logs, last, log_effect, now,
          active_missions, tasks, response>>

-----------------------------------------------------------------------------
(* Bounds of the model *)

\* Most attributes a context or a mission descriptor carries.
MaxAttrs == 2
\* Most objectives a mission descriptor lists.
MaxObjectives == 2
\* Entries kept by the log trim of the model (the program keeps 10000).
MaxLogs == 2

\* The clock of the model stops at this number of seconds after the start.
MaxClock == 90000

\* The number of execute_mission tasks that run at a time
MaxTasks == 2

-----------------------------------------------------------------------------
(* Python values *)

PyStr(s) == [t |-> "str", s |-> s, n |-> 0]
PyBool(b) == [t |-> "bool", s |-> "", n |-> IF b THEN 1 ELSE 0]
PyInt(i) == [t |-> "int", s |-> "", n |-> i]
None == [t |-> "NoneType", s |-> "", n |-> 0]
\* A dict or list value that no condition looks into; s names it.
Obj(kind, name) == [t |-> kind, s |-> name, n |-> 0]

PyTrue == PyBool(TRUE)
PyFalse == PyBool(FALSE)

IsNumber(v) == v.t \in {"int", "bool"}

\* Python ==
PyEq(a, b) ==
    IF IsNumber(a) /\ IsNumber(b) THEN a.n = b.n
    ELSE a.t = b.t /\ a.s = b.s /\ a.n = b.n

\* Python truth value (bool(v))
Truthy(v) ==
    CASE IsNumber(v) -> v.n # 0
      [] v.t = "str" -> v.s # ""
      [] v.t = "NoneType" -> FALSE
      [] OTHER -> v.n # 0

\* The strings the model compares with < or >=, in Python's str order.
StrOrder == <<"admin", "operator", "root">>

StrRank(s) == CHOOSE i \in 1..Len(StrOrder) : StrOrder[i] = s

\* Python a < b: "True", "False", or "TypeError" when the types do not order.
PyLess(a, b) ==
    IF IsNumber(a) /\ IsNumber(b) THEN (IF a.n < b.n THEN "True" ELSE "False")
    ELSE IF a.t = "str" /\ b.t = "str"
         THEN (IF StrRank(a.s) < StrRank(b.s) THEN "True" ELSE "False")
    ELSE "TypeError"

\* dict.get(key, default)
Get(d, key, default) == IF key \in DOMAIN d THEN d[key] ELSE default

\* {**base, **over}: the later dict wins
Merge(base, over) ==
    [k \in (DOMAIN base) \cup (DOMAIN over) |->
        IF k \in DOMAIN over THEN over[k] ELSE base[k]]

EmptyDict == [k \in {} |-> None]

\* The one element of a singleton.  A value a later step reads more than once
\* is bound first, as in {F(v) : v \in {e}}, so that e is computed once.
Only(S) == CHOOSE x \in S : TRUE

-----------------------------------------------------------------------------
(* SafetyLevel, AsimovLaw *)

SAFE == "safe"
CAUTION == "caution"
DANGEROUS == "dangerous"
PROHIBITED == "prohibited"

SafetyLevel == {SAFE, CAUTION, DANGEROUS, PROHIBITED}

FIRST == "FIRST"
SECOND == "SECOND"
THIRD == "THIRD"

AsimovLaw == {FIRST, SECOND, THIRD}

\* max(a, b) on two SafetyLevel members.  SafetyLevel is a plain Enum and
\* defines no ordering, so the comparison b > a that max makes raises
\* TypeError for every pair of members.
PyMax(a, b) == [raised |-> TRUE, value |-> a]

-----------------------------------------------------------------------------
(* The rule catalog, in registration order *)

CondIn(name, vals) == [op |-> "in", name |-> name, vals |-> vals]
CondEq(name, val) == [op |-> "eq", name |-> name, val |-> val]

\* The fields of a SafetyRule that the engine reads (name and metadata are
\* never read); enabled takes its default.
SafetyRule(id, law, description, cond, action, priority) ==
    [id |-> id, law |-> law, description |-> description, condition |-> cond,
     action |-> action, priority |-> priority, enabled |-> TRUE]

first_law_rules == <<
    SafetyRule("fl_001", FIRST, "Prevent any action that could directly harm humans",
        CondIn("action_type", <<"physical_access", "social_engineering", "doxxing">>),
        "block", 1),
    SafetyRule("fl_002", FIRST, "Prevent attacks on critical infrastructure",
        CondIn("target_type", <<"hospital", "power_grid", "water_supply", "emergency_services">>),
        "block", 1),
    SafetyRule("fl_003", FIRST, "Prevent exposure of personal sensitive data",
        CondIn("data_type", <<"pii", "medical", "financial", "personal">>),
        "require_approval", 2),
    SafetyRule("fl_004", FIRST, "Prevent destructive operations that could cause harm",
        CondIn("operation_type", <<"delete", "destroy", "corrupt", "wipe">>),
        "require_approval", 2),
    SafetyRule("fl_005", FIRST, "Protect individual privacy rights",
        CondEq("involves_private_data", PyTrue),
        "require_justification", 3) >>

second_law_rules == <<
    SafetyRule("sl_001", SECOND, "Follow authenticated operator commands",
        CondEq("operator_authenticated", PyTrue),
        "allow", 4),
    SafetyRule("sl_002", SECOND, "Allow emergency override by authorized personnel",
        [op |-> "and",
         left |-> CondEq("emergency_override", PyTrue),
         right |-> [op |-> "ge", name |-> "authorization_level", val |-> PyStr("admin")]],
        "allow_with_logging", 3),
    SafetyRule("sl_003", SECOND, "Validate commands don't violate First Law",
        CondEq("command_violates_first_law", PyTrue),
        "block", 1),
    SafetyRule("sl_004", SECOND, "Ensure operator has required permissions",
        [op |-> "lt", name |-> "operator_permission_level",
         other |-> "required_permission_level"],
        "block", 2) >>

third_law_rules == <<
    SafetyRule("tl_001", THIRD, "Protect system integrity and availability",
        CondEq("action_threatens_system", PyTrue),
        "require_approval", 5),
    SafetyRule("tl_002", THIRD, "Prevent resource exhaustion",
        [op |-> "gt", name |-> "resource_usage", val |-> PyInt(90)],
        "limit_operations", 6),
    SafetyRule("tl_003", THIRD, "Protect mission logs and evidence",
        CondEq("action_type", PyStr("modify_logs")),
        "block", 4),
    SafetyRule("tl_004", THIRD, "Maintain secure communications",
        CondEq("communication_insecure", PyTrue),
        "require_encryption", 5) >>

\* self.rules after _load_core_rules: a dict keeps insertion order
rules == first_law_rules \o second_law_rules \o third_law_rules

prohibited_actions == {
    "physical_attack", "weapon_systems", "explosive_devices",
    "power_grid_attack", "water_supply_attack", "hospital_systems_attack",
    "emergency_services_attack", "air_traffic_control_attack",
    "doxxing", "stalking", "harassment", "identity_theft", "financial_fraud",
    "data_destruction", "system_corruption", "permanent_damage",
    "unauthorized_surveillance", "private_data_theft", "medical_record_access" }

\* self.dangerous_patterns: the labels, in insertion order
dangerous_patterns == <<
    "DDoS attack patterns", "Ransomware indicators", "Botnet operations",
    "Database destruction", "Data wiping operations", "Data theft operations",
    "Malware installation", "Unauthorized access", "Surveillance tools",
    "Social engineering", "Identity crimes" >>

-----------------------------------------------------------------------------
(* re.search(pattern, text) for the texts of the model *)

\* The free texts a description takes in the model.
DescriptionTexts == {"port scan of the lab network", "launching a ransomware attack"}

\* The pairs <<label of the pattern, text>> for which re.search finds a match,
\* among the patterns of dangerous_patterns and the texts of DescriptionTexts
\* and "" (the default of context.get("description", "")).
pattern_matches == { <<"Ransomware indicators", "launching a ransomware attack">> }

re_search(label, text) == <<label, text>> \in pattern_matches

-----------------------------------------------------------------------------
(* _evaluate_rule_condition *)

Value(v) == [exc |-> "", val |-> v]
Raise(e) == [exc |-> e, val |-> None]

\* eval(condition, {"__builtins__": {}}, eval_context): the value, or the
\* exception the expression raises (NameError for a name the context lacks,
\* TypeError for an ordering of unordered types).
RECURSIVE EvalCond(_, _)
EvalCond(cond, ctx) ==
    CASE cond.op = "in" ->
            IF cond.name \notin DOMAIN ctx THEN Raise("NameError")
            ELSE Value(PyBool(\E i \in 1..Len(cond.vals) :
                                 PyEq(ctx[cond.name], PyStr(cond.vals[i]))))
      [] cond.op = "eq" ->
            IF cond.name \notin DOMAIN ctx THEN Raise("NameError")
            ELSE Value(PyBool(PyEq(ctx[cond.name], cond.val)))
      [] cond.op = "and" ->
            LET l == EvalCond(cond.left, ctx)
            IN  IF l.exc # "" \/ ~Truthy(l.val) THEN l
                ELSE EvalCond(cond.right, ctx)
      [] cond.op = "ge" ->
            IF cond.name \notin DOMAIN ctx THEN Raise("NameError")
            ELSE LET lt == PyLess(ctx[cond.name], cond.val)
                 IN  IF lt = "TypeError" THEN Raise("TypeError")
                     ELSE Value(PyBool(lt = "False"))
      [] cond.op = "gt" ->
            IF cond.name \notin DOMAIN ctx THEN Raise("NameError")
            ELSE LET lt == PyLess(cond.val, ctx[cond.name])
                 IN  IF lt = "TypeError" THEN Raise("TypeError")
                     ELSE Value(PyBool(lt = "True"))
      [] cond.op = "lt" ->
            IF cond.name \notin DOMAIN ctx \/ cond.other \notin DOMAIN ctx
            THEN Raise("NameError")
            ELSE LET lt == PyLess(ctx[cond.name], ctx[cond.other])
                 IN  IF lt = "TypeError" THEN Raise("TypeError")
                     ELSE Value(PyBool(lt = "True"))

\* eval_context = {"action_type": action_type, **context}
eval_context(action_type, context) ==
    Merge([k \in {"action_type"} |-> PyStr(action_type)], context)

\* _evaluate_rule_condition that takes an exception of the evaluation for a
\* match.
evaluate_rule_condition_error_matches(rule, action_type, context) ==
    LET r == EvalCond(rule.condition, eval_context(action_type, context))
    IN  IF r.exc # "" THEN TRUE ELSE Truthy(r.val)

\* An exception of the evaluation is caught and gives False.
evaluate_rule_condition(rule, action_type, context) ==
    LET r == EvalCond(rule.condition, eval_context(action_type, context))
    IN  IF r.exc # "" THEN FALSE ELSE Truthy(r.val)

-----------------------------------------------------------------------------
(* SafetyCheck, and the outcome of a call *)

\* A SafetyCheck the call returned.  violated_laws is the list as the code
\* builds it (validate_action and validate_mission pass it through
\* list(set(...)), which orders it arbitrarily: the model keeps the set).
SafetyCheck(approved, violated_laws, violated_rules, safety_level, reason, recommendations, requires_approval) ==
    [raised |-> FALSE, exc |-> "",
     approved |-> approved,
     violated_laws |-> violated_laws,
     violated_rules |-> violated_rules,
     safety_level |-> safety_level,
     reason |-> reason,
     recommendations |-> recommendations,
     requires_approval |-> requires_approval,
     approval_level |-> "operator"]

\* The call raised exc to its caller and returned no SafetyCheck.
Raised(exc) ==
    [raised |-> TRUE, exc |-> exc,
     approved |-> None,
     violated_laws |-> {},
     violated_rules |-> <<>>,
     safety_level |-> "",
     reason |-> "",
     recommendations |-> <<>>,
     requires_approval |-> FALSE,
     approval_level |-> ""]

Range(seq) == {seq[i] : i \in 1..Len(seq)}

\* sep.join(seq)
RECURSIVE Join(_, _)
Join(seq, sep) ==
    IF Len(seq) = 0 THEN ""
    ELSE IF Len(seq) = 1 THEN seq[1]
    ELSE seq[1] \o sep \o Join(Tail(seq), sep)

law_descriptions(law) ==
    CASE law = FIRST -> "First Law (Do No Harm)"
      [] law = SECOND -> "Second Law (Obey Operators)"
      [] law = THIRD -> "Third Law (Self-Preservation)"

generate_reason(violated_laws, violated_rules, safety_level) ==
    IF Len(violated_laws) = 0
    THEN "Action approved - no safety violations detected"
    ELSE "Action violates "
         \o Join([i \in 1..Len(violated_laws) |-> law_descriptions(violated_laws[i])], ", ")
         \o ". Safety level: " \o safety_level
         \o ". Rules: " \o Join(violated_rules, ", ")

-----------------------------------------------------------------------------
(* validate_action *)

\* The verdict returned while the emergency stop is active.
EmergencyStopCheck ==
    SafetyCheck(PyFalse, {FIRST}, <<"emergency_stop">>, PROHIBITED,
                "Emergency stop is active - all operations suspended",
                <<"Wait for emergency stop to be deactivated">>, FALSE)

\* The locals of validate_action; exc is the exception that ended the body.
Locals0 ==
    [exc |-> "", violated_laws |-> <<>>, violated_rules |-> <<>>,
     safety_level |-> SAFE, requires_approval |-> FALSE, recommendations |-> <<>>]

\* check_prohibited with the assignment of the level left out.
check_prohibited_level_unset(loc, action_type) ==
    IF action_type \in prohibited_actions
    THEN [loc EXCEPT !.violated_laws = Append(@, FIRST),
                     !.violated_rules = Append(@, "prohibited_action")]
    ELSE loc

\* if action_type in self.prohibited_actions: ...
check_prohibited(loc, action_type) ==
    IF action_type \in prohibited_actions
    THEN [loc EXCEPT !.violated_laws = Append(@, FIRST),
                     !.violated_rules = Append(@, "prohibited_action"),
                     !.safety_level = PROHIBITED]
    ELSE loc

\* One turn of the loop over dangerous_patterns.  re.search raises TypeError
\* for a description that is no str.
scan_pattern(loc, label, description) ==
    IF loc.exc # "" THEN loc
    ELSE IF description.t # "str" THEN [loc EXCEPT !.exc = "TypeError"]
    ELSE IF re_search(label, description.s)
         THEN LET m == PyMax(loc.safety_level, DANGEROUS)
                  hit == [loc EXCEPT
                             !.violated_laws = Append(@, FIRST),
                             !.violated_rules = Append(@, "dangerous_pattern: " \o label)]
              IN  IF m.raised THEN [hit EXCEPT !.exc = "TypeError"]
                  ELSE [hit EXCEPT !.safety_level = m.value]
    ELSE loc

RECURSIVE scan_patterns(_, _, _)
scan_patterns(loc, description, i) ==
    IF i > Len(dangerous_patterns) THEN loc
    ELSE Only({scan_patterns(next, description, i + 1) :
                  next \in {scan_pattern(loc, dangerous_patterns[i], description)}})

\* apply_rule that passes over the rule once the level is PROHIBITED.
apply_rule_stops_at_prohibited(loc, rule, action_type, context) ==
    IF loc.exc # "" THEN loc
    ELSE IF loc.safety_level = PROHIBITED THEN loc
    ELSE IF ~rule.enabled THEN loc
    ELSE IF ~evaluate_rule_condition(rule, action_type, context) THEN loc
    ELSE CASE rule.action = "block" ->
                [loc EXCEPT !.violated_laws = Append(@, rule.law),
                            !.violated_rules = Append(@, rule.id),
                            !.safety_level = PROHIBITED]
           [] rule.action = "require_approval" ->
                LET m == PyMax(loc.safety_level, CAUTION)
                    req == [loc EXCEPT !.requires_approval = TRUE]
                IN  IF m.raised THEN [req EXCEPT !.exc = "TypeError"]
                    ELSE [req EXCEPT
                             !.safety_level = m.value,
                             !.recommendations =
                                 Append(@, "Requires approval: " \o rule.description)]
           [] rule.action = "require_justification" ->
                [loc EXCEPT !.requires_approval = TRUE,
                            !.recommendations =
                                Append(@, "Requires justification: " \o rule.description)]
           [] OTHER -> loc

\* One turn of the loop over self.rules.values().
apply_rule(loc, rule, action_type, context) ==
    IF loc.exc # "" THEN loc
    ELSE IF ~rule.enabled THEN loc
    ELSE IF ~evaluate_rule_condition(rule, action_type, context) THEN loc
    ELSE CASE rule.action = "block" ->
                [loc EXCEPT !.violated_laws = Append(@, rule.law),
                            !.violated_rules = Append(@, rule.id),
                            !.safety_level = PROHIBITED]
           [] rule.action = "require_approval" ->
                LET m == PyMax(loc.safety_level, CAUTION)
                    req == [loc EXCEPT !.requires_approval = TRUE]
                IN  IF m.raised THEN [req EXCEPT !.exc = "TypeError"]
                    ELSE [req EXCEPT
                             !.safety_level = m.value,
                             !.recommendations =
                                 Append(@, "Requires approval: " \o rule.description)]
           [] rule.action = "require_justification" ->
                [loc EXCEPT !.requires_approval = TRUE,
                            !.recommendations =
                                Append(@, "Requires justification: " \o rule.description)]
           [] OTHER -> loc

RECURSIVE apply_rules(_, _, _, _)
apply_rules(loc, action_type, context, i) ==
    IF i > Len(rules) THEN loc
    ELSE Only({apply_rules(next, action_type, context, i + 1) :
                  next \in {apply_rule(loc, rules[i], action_type, context)}})

\* approved = (len(violated_laws) == 0 and safety_level != PROHIBITED and
\*             (not requires_approval or context.get("operator_approved", False)))
\* "and" and "or" give back an operand, so the last one is returned as it is.
determine_approval(loc, context) ==
    IF Len(loc.violated_laws) # 0 THEN PyFalse
    ELSE IF loc.safety_level = PROHIBITED THEN PyFalse
    ELSE IF ~loc.requires_approval THEN PyTrue
    ELSE Get(context, "operator_approved", PyFalse)

\* The SafetyCheck built from the locals, or the exception that ended the body.
build_result(loc, context) ==
    IF loc.exc # "" THEN Raised(loc.exc)
    ELSE SafetyCheck(determine_approval(loc, context),
                     Range(loc.violated_laws),
                     loc.violated_rules,
                     loc.safety_level,
                     generate_reason(loc.violated_laws, loc.violated_rules,
                                     loc.safety_level),
                     loc.recommendations,
                     loc.requires_approval)

\* The body of validate_action after the emergency-stop test: the prohibited
\* set, then the patterns, then the rules, then the result.
evaluate_action(action_type, context) ==
    Only({build_result(l3, context) :
            l3 \in {apply_rules(l2, action_type, context, 1) :
                l2 \in {scan_patterns(l1, Get(context, "description", PyStr("")), 1) :
                    l1 \in {check_prohibited(Locals0, action_type)}}}})

-----------------------------------------------------------------------------
(* _log_safety_check *)

\* datetime.isoformat() and datetime.fromisoformat(): the text of a time and
\* the time of a text.
isoformat(t) == [iso |-> t]
fromisoformat(text) == text.iso

\* log_entry that records the opposite of the flag.
log_entry_flag_inverted(action_type, result, stopped) ==
    [timestamp |-> isoformat(now),
     action_type |-> action_type,
     emergency_stop_active |-> ~stopped]

\* The log entry.  The model keeps the timestamp, the action type and the
\* flag read when the entry is built; the context and the result are written
\* and never read.
log_entry(action_type, result, stopped) ==
    [timestamp |-> isoformat(now),
     action_type |-> action_type,
     emergency_stop_active |-> stopped]

\* self.safety_logs[-MaxLogs:]
LastN(logs, n) ==
    IF Len(logs) > n THEN SubSeq(logs, Len(logs) - n + 1, Len(logs)) ELSE logs

\* log_safety_check that trims before it appends.
log_safety_check_trim_first(logs, action_type, result, stopped) ==
    Append(IF Len(logs) > MaxLogs THEN LastN(logs, MaxLogs) ELSE logs,
           log_entry(action_type, result, stopped))

\* log_safety_check with a trim that keeps the first entries.
log_safety_check_keep_oldest(logs, action_type, result, stopped) ==
    LET appended == Append(logs, log_entry(action_type, result, stopped))
    IN  IF Len(appended) > MaxLogs THEN SubSeq(appended, 1, MaxLogs) ELSE appended

log_safety_check(logs, action_type, result, stopped) ==
    LET appended == Append(logs, log_entry(action_type, result, stopped))
    IN  IF Len(appended) > MaxLogs THEN LastN(appended, MaxLogs) ELSE appended

\* The log after the calls of _log_safety_check for the checks from the i-th on.
RECURSIVE log_safety_checks(_, _, _, _, _)
log_safety_checks(logs, action_type, checks, stopped, i) ==
    IF i > Len(checks) THEN logs
    ELSE Only({log_safety_checks(next, action_type, checks, stopped, i + 1) :
                  next \in {log_safety_check(logs, action_type, checks[i], stopped)}})

\* What a call did to the log when it appended n entries: that number and
\* the number of entries its trims removed.
Written(n) ==
    [appended |-> n, evicted |-> Len(safety_logs) + n - Len(safety_logs')]

-----------------------------------------------------------------------------
(* validate_mission *)

\* A mission descriptor: fields are its top-level keys other than
\* "objectives"; has_objectives tells whether it has that key at all.
Mission(fields, has_objectives, objectives) ==
    [fields |-> fields, has_objectives |-> has_objectives, objectives |-> objectives]

\* mission_data as the dict the code unpacks with **mission_data
mission_dict(mission) ==
    IF mission.has_objectives
    THEN Merge(mission.fields, [k \in {"objectives"} |-> Obj("list", "objectives")])
    ELSE mission.fields

\* mission_data.get("objectives", [])
mission_objectives(mission) ==
    IF mission.has_objectives THEN mission.objectives ELSE <<>>

\* The context of one objective's check.
objective_context(mission, objective) ==
    LET md == mission_dict(mission)
    IN  Merge([k \in {"objective", "mission_id", "priority"} |->
                  CASE k = "objective" -> Obj("dict", objective)
                    [] k = "mission_id" -> Get(md, "id", None)
                    [] k = "priority" -> Get(md, "priority", None)],
              md)

\* The loop over the objectives from the i-th on: the checks returned so
\* far, the log, and the exception that ended the loop, if one did.
-----------------------------------------------------------------------------
(* The inputs the model draws *)

\* actionType arguments: one no rule names, prohibited ones (doxxing is also
\* named by fl_001, stalking by no rule), and one a block rule names.
ActionTypes == {"data_export", "doxxing", "stalking", "modify_logs"}

AttrNames ==
    {"description", "data_type", "target_type", "involves_private_data",
     "operator_approved"}

AttrValues(name) ==
    CASE name = "description" -> {PyStr(t) : t \in DescriptionTexts}
      [] name = "data_type" -> {PyStr("pii")}
      [] name = "target_type" -> {PyStr("hospital")}
      [] name = "involves_private_data" -> {PyTrue}
      [] name = "operator_approved" -> {PyTrue, PyStr("no")}

\* The dicts over the names D
DictsOver(D) ==
    {c \in [D -> UNION {AttrValues(k) : k \in D}] : \A k \in D : c[k] \in AttrValues(k)}

\* The dicts with at most n of the names
DictsUpTo(names, n) ==
    UNION {DictsOver(D) : D \in {S \in SUBSET names : Cardinality(S) <= n}}

Contexts == DictsUpTo(AttrNames, MaxAttrs)

\* Contexts with an entry of their own named action_type
OverrideContexts ==
    {[k \in {"action_type"} |-> PyStr(t)] : t \in {"data_export", "doxxing"}}

ObjectiveKinds == {"obj_recon", "obj_hospital"}

ObjectiveLists == UNION {[1..n -> ObjectiveKinds] : n \in 0..MaxObjectives}

\* Mission descriptors whose top-level fields are drawn from `fields`
MissionsOver(fields) ==
    {Mission(f, TRUE, objs) : f \in fields, objs \in ObjectiveLists}
    \cup {Mission(f, FALSE, <<>>) : f \in fields}

\* The attributes a mission descriptor carries at its top level
MissionAttrNames ==
    {"data_type", "target_type", "involves_private_data", "operator_approved"}

Missions == MissionsOver(DictsUpTo(MissionAttrNames, MaxAttrs))

\* Missions with no attribute
BareMissions == MissionsOver({EmptyDict})

OperatorIds == {"op1"}

\* The mission objects validate_mission_execution is called with: the
\* attributes it reads.
ExecutionMissions ==
    {[id |-> "m1", status |-> st, priority |-> "high", assigned_operator |-> op] :
        st \in {"pending", "paused"}, op \in OperatorIds}

\* The context validate_mission_execution builds
execution_context(mission) ==
    [k \in {"mission_id", "status", "priority", "operator_id"} |->
        CASE k = "mission_id" -> PyStr(mission.id)
          [] k = "status" -> PyStr(mission.status)
          [] k = "priority" -> PyStr(mission.priority)
          [] k = "operator_id" -> PyStr(mission.assigned_operator)]

\* The context the login handler builds: the id of the user and the time
LoginContext ==
    [k \in {"user_id", "timestamp"} |->
        CASE k = "user_id" -> PyInt(1)
          [] k = "timestamp" -> Obj("datetime", "utcnow")]

\* The missions the request layer is asked to create: one that names no
\* protected target, and one whose target_type is a hospital.
RequestMissions ==
    {Mission(f, TRUE, <<"obj_recon">>) :
        f \in {EmptyDict, [k \in {"target_type"} |-> PyStr("hospital")]}}

\* len(mission.objectives) of the missions the request layer starts
ObjectiveCounts == 0..MaxObjectives

-----------------------------------------------------------------------------
(* validate_action on the inputs of the model *)

\* The contexts validate_action is called with: those of the direct calls
\* and those validate_mission builds for its objectives.
CheckedContexts(action_type) ==
    CASE action_type = "mission_objective" ->
             {objective_context(m, o) : m \in Missions \cup BareMissions,
                                        o \in ObjectiveKinds}
      [] action_type = "mission_execution" ->
             {execution_context(m) : m \in ExecutionMissions}
      [] action_type = "user_login" -> {LoginContext}
      [] OTHER -> Contexts \cup OverrideContexts

CheckedActionTypes ==
    ActionTypes \cup {"mission_objective", "mission_execution", "user_login"}

\* evaluate_action, tabulated once over those inputs (f @@ <<>> is f).
action_checks ==
    [a \in CheckedActionTypes |->
        [c \in CheckedContexts(a) |-> evaluate_action(a, c)] @@ <<>>] @@ <<>>

\* validate_action with the emergency-stop test left out.
validate_action_stop_ignored(stopped, action_type, context) ==
    action_checks[action_type][context]

\* What validate_action gives its caller when the flag is `stopped`.
validate_action(stopped, action_type, context) ==
    IF stopped THEN EmergencyStopCheck
    ELSE action_checks[action_type][context]

-----------------------------------------------------------------------------
(* validate_mission: the loop and the aggregate *)

\* The loop over the objectives from the i-th on: the checks returned so
\* far, and the exception that ended the loop, if one did.
RECURSIVE check_objectives(_, _, _, _)
check_objectives(stopped, mission, run, i) ==
    IF i > Len(mission_objectives(mission)) \/ run.exc # "" THEN run
    ELSE Only({check_objectives(stopped, mission,
                    IF check.raised THEN [run EXCEPT !.exc = check.exc]
                    ELSE [run EXCEPT !.all_checks = Append(@, check)],
                    i + 1) :
                  check \in {validate_action(stopped, "mission_objective",
                                objective_context(mission,
                                    mission_objectives(mission)[i]))}})

\* any(check.safety_level == level for check in all_checks)
any_level(all_checks, level) ==
    \E i \in 1..Len(all_checks) : all_checks[i].safety_level = level

\* aggregate_checks with the test for PROHIBITED left out of the level.
aggregate_checks_no_prohibited(all_checks) ==
    SafetyCheck(
        PyBool(\A i \in 1..Len(all_checks) : Truthy(all_checks[i].approved)),
        UNION {all_checks[i].violated_laws : i \in 1..Len(all_checks)},
        UNION {Range(all_checks[i].violated_rules) : i \in 1..Len(all_checks)},
        IF any_level(all_checks, DANGEROUS) THEN DANGEROUS
        ELSE IF any_level(all_checks, CAUTION) THEN CAUTION
        ELSE SAFE,
        "Mission validation: " \o ToString(Len(all_checks)) \o " objectives checked",
        <<>>,
        \E i \in 1..Len(all_checks) : all_checks[i].requires_approval)

\* The aggregate of the checks.  all(...) takes the truth value of each
\* approved.  violated_rules is list(set(...)); the model keeps the set.
aggregate_checks(all_checks) ==
    SafetyCheck(
        PyBool(\A i \in 1..Len(all_checks) : Truthy(all_checks[i].approved)),
        UNION {all_checks[i].violated_laws : i \in 1..Len(all_checks)},
        UNION {Range(all_checks[i].violated_rules) : i \in 1..Len(all_checks)},
        IF any_level(all_checks, PROHIBITED) THEN PROHIBITED
        ELSE IF any_level(all_checks, DANGEROUS) THEN DANGEROUS
        ELSE IF any_level(all_checks, CAUTION) THEN CAUTION
        ELSE SAFE,
        "Mission validation: " \o ToString(Len(all_checks)) \o " objectives checked",
        <<>>,
        \E i \in 1..Len(all_checks) : all_checks[i].requires_approval)

\* validate_mission when the flag is `stopped`: what it returns or raises,
\* and the checks its calls of validate_action returned.
validate_mission(stopped, mission) ==
    Only({[ret |-> IF run.exc # "" THEN Raised(run.exc)
                   ELSE aggregate_checks(run.all_checks),
           all_checks |-> run.all_checks] :
            run \in {check_objectives(stopped, mission,
                        [exc |-> "", all_checks |-> <<>>], 1)}})

\* validate_mission, tabulated once over the missions of the model.
mission_checks ==
    [stopped \in BOOLEAN |->
        [m \in Missions \cup BareMissions |-> validate_mission(stopped, m)] @@ <<>>]
    @@ <<>>

-----------------------------------------------------------------------------
(* The state machine *)

\* Each operation is one step.  The operations are coroutines of one event
\* loop and none of them has a suspension point: the only awaits are on
\* _log_safety_check and validate_action, which await nothing that suspends.
\* The event loop therefore runs a call to its end before it starts another.

\* A call that returns None
ReturnedNone ==
    [raised |-> FALSE, exc |-> "",
     approved |-> None,
     violated_laws |-> {},
     violated_rules |-> <<>>,
     safety_level |-> "",
     reason |-> "",
     recommendations |-> <<>>,
     requires_approval |-> FALSE,
     approval_level |-> ""]

NoMission == Mission(EmptyDict, FALSE, <<>>)

\* The record of a call: the operation, its arguments, the flag it found,
\* what it returned or raised, and (validate_mission) its objective checks.
Call(op, action_type, context, mission, stopped, ret, all_checks) ==
    [op |-> op, action_type |-> action_type, context |-> context,
     mission |-> mission, stopped |-> stopped, ret |-> ret,
     all_checks |-> all_checks]

\* No request was handled yet.
NoResponse == [op |-> "none", status |-> 0, invoked |-> {}, check |-> ReturnedNone]

\* The engines after __init__ and initialize()
Init ==
    /\ emergency_stop_active = FALSE
    /\ safety_logs = <<>>
    /\ last = Call("none", "", EmptyDict, NoMission, FALSE, ReturnedNone, <<>>)
    /\ log_effect = [appended |-> 0, evicted |-> 0]
    /\ now = 0
    /\ active_missions = EmptyDict
    /\ tasks = <<>>
    /\ response = NoResponse

\* validate_action that sets the emergency stop when it refuses the action.
ValidateAction_stopping(action_type, context) ==
    \E stopped \in {emergency_stop_active} :
    \E ret \in {validate_action(stopped, action_type, context)} :
        /\ safety_logs' =
              IF stopped \/ ret.raised THEN safety_logs
              ELSE log_safety_check(safety_logs, action_type, ret, stopped)
        /\ log_effect' = Written(IF stopped \/ ret.raised THEN 0 ELSE 1)
        /\ last' = Call("validate_action", action_type, context, NoMission,
                        stopped, ret, <<>>)
        /\ emergency_stop_active' = (stopped \/ (~ret.raised /\ ret.approved = PyFalse))
        /\ UNCHANGED <<now, active_missions, tasks, response>>

ValidateAction(action_type, context) ==
    \E stopped \in {emergency_stop_active} :
    \E ret \in {validate_action(stopped, action_type, context)} :
        /\ safety_logs' =
              IF stopped \/ ret.raised THEN safety_logs
              ELSE log_safety_check(safety_logs, action_type, ret, stopped)
        /\ log_effect' = Written(IF stopped \/ ret.raised THEN 0 ELSE 1)
        /\ last' = Call("validate_action", action_type, context, NoMission,
                        stopped, ret, <<>>)
        /\ UNCHANGED <<emergency_stop_active, now, active_missions, tasks, response>>

\* validate_mission_execution that does not read the flag.
ValidateMissionExecution_flag_unread(mission) ==
    \E stopped \in {emergency_stop_active} :
    \E context \in {execution_context(mission)} :
    \E ret \in {validate_action(FALSE, "mission_execution", context)} :
        /\ safety_logs' =
              log_safety_check(safety_logs, "mission_execution", ret, stopped)
        /\ log_effect' = Written(1)
        /\ last' = Call("validate_mission_execution", "mission_execution", context,
                        NoMission, stopped, ret, <<>>)
        /\ UNCHANGED <<emergency_stop_active, now, active_missions, tasks, response>>

\* validate_mission_execution(mission): validate_action on the context built
\* from the mission object.
ValidateMissionExecution(mission) ==
    \E stopped \in {emergency_stop_active} :
    \E context \in {execution_context(mission)} :
    \E ret \in {validate_action(stopped, "mission_execution", context)} :
        /\ safety_logs' =
              IF stopped \/ ret.raised THEN safety_logs
              ELSE log_safety_check(safety_logs, "mission_execution", ret, stopped)
        /\ log_effect' = Written(IF stopped \/ ret.raised THEN 0 ELSE 1)
        /\ last' = Call("validate_mission_execution", "mission_execution", context,
                        NoMission, stopped, ret, <<>>)
        /\ UNCHANGED <<emergency_stop_active, now, active_missions, tasks, response>>

ValidateMission(mission) ==
    \E stopped \in {emergency_stop_active} :
    \E out \in {mission_checks[stopped][mission]} :
        /\ safety_logs' =
              IF stopped THEN safety_logs
              ELSE log_safety_checks(safety_logs, "mission_objective",
                                     out.all_checks, stopped, 1)
        /\ log_effect' = Written(IF stopped THEN 0 ELSE Len(out.all_checks))
        /\ last' = Call("validate_mission", "", EmptyDict, mission,
                        stopped, out.ret, out.all_checks)
        /\ UNCHANGED <<emergency_stop_active, now, active_missions, tasks, response>>

\* The SafetyCheck emergency_stop logs
EmergencyStopLogged ==
    SafetyCheck(PyFalse, {}, <<"emergency_stop">>, PROHIBITED,
                "Emergency stop activated by operator",
                <<"All operations suspended for safety">>, FALSE)

\* emergency_stop that flips the flag.
EmergencyStop_toggling ==
    /\ emergency_stop_active' = ~emergency_stop_active
    /\ safety_logs' = log_safety_check(safety_logs, "emergency_stop",
                                       EmergencyStopLogged, emergency_stop_active')
    /\ log_effect' = Written(1)
    /\ last' = Call("emergency_stop", "", EmptyDict, NoMission,
                    emergency_stop_active, ReturnedNone, <<>>)
    /\ UNCHANGED <<now, active_missions, tasks, response>>

EmergencyStop ==
    /\ emergency_stop_active' = TRUE
    /\ safety_logs' = log_safety_check(safety_logs, "emergency_stop",
                                       EmergencyStopLogged, TRUE)
    /\ log_effect' = Written(1)
    /\ last' = Call("emergency_stop", "", EmptyDict, NoMission,
                    emergency_stop_active, ReturnedNone, <<>>)
    /\ UNCHANGED <<now, active_missions, tasks, response>>

\* deactivate_emergency_stop that leaves the flag as it is.
DeactivateEmergencyStop_flag_kept(operator_id) ==
    /\ emergency_stop_active' = emergency_stop_active
    /\ safety_logs' = safety_logs
    /\ log_effect' = Written(0)
    /\ last' = Call("deactivate_emergency_stop", "", EmptyDict, NoMission,
                    emergency_stop_active, ReturnedNone, <<>>)
    /\ UNCHANGED <<now, active_missions, tasks, response>>

DeactivateEmergencyStop(operator_id) ==
    /\ emergency_stop_active' = FALSE
    /\ safety_logs' = safety_logs
    /\ log_effect' = Written(0)
    /\ last' = Call("deactivate_emergency_stop", "", EmptyDict, NoMission,
                    emergency_stop_active, ReturnedNone, <<>>)
    /\ UNCHANGED <<now, active_missions, tasks, response>>

\* timedelta.seconds of a difference of d seconds: the seconds within the day
timedelta_seconds(d) == d % 86400

\* What get_status returns
status_dict ==
    [raised |-> FALSE, exc |-> "",
     active |-> TRUE,
     emergency_stop |-> emergency_stop_active,
     rules_count |-> Len(rules),
     prohibited_actions |-> Cardinality(prohibited_actions),
     recent_checks |->
         Cardinality({i \in 1..Len(safety_logs) :
             timedelta_seconds(now - fromisoformat(safety_logs[i].timestamp)) < 3600})]

GetStatus ==
    /\ last' = Call("get_status", "", EmptyDict, NoMission,
                    emergency_stop_active, status_dict, <<>>)
    /\ log_effect' = [appended |-> 0, evicted |-> 0]
    /\ UNCHANGED <<emergency_stop_active, safety_logs, now, active_missions, tasks, response>>

-----------------------------------------------------------------------------
(* CognitiveEngine: execute_mission and emergency_stop *)

\* execute_mission runs as a task of the event loop and gives the loop the
\* hand at each await: on _analyze_mission_objective, _wait_for_approval and
\* _execute_objective, and on asyncio.sleep(1).  A task is the mission it
\* executes, the number n of its objectives, the number i of the objective it
\* is at, the await it is suspended at (pc), and the recommendation of the
\* decision it holds.
Task(mission_id, n) ==
    [mission_id |-> mission_id, n |-> n, i |-> 0, pc |-> "start",
     recommendation |-> ""]

\* self.active_missions[mission_id]["status"] = status
set_status(missions, mission_id, status) ==
    [k \in DOMAIN missions \cup {mission_id} |->
        IF k = mission_id THEN status ELSE missions[k]]

\* What the awaited coroutines give back: an exception, or the decision of
\* _analyze_mission_objective (the other two give nothing the task reads).
Outcomes ==
    {[raises |-> TRUE, requires_human_approval |-> FALSE, recommendation |-> ""]}
    \cup {[raises |-> FALSE, requires_human_approval |-> a, recommendation |-> r] :
             a \in BOOLEAN, r \in {"proceed", "skip"}}

Remove(seq, t) == SubSeq(seq, 1, t - 1) \o SubSeq(seq, t + 1, Len(seq))

\* The task t ends with the status.
end_task(t, status) ==
    /\ active_missions' = set_status(active_missions, tasks[t].mission_id, status)
    /\ tasks' = Remove(tasks, t)

\* The task t suspends at the await pc.
suspend_task(t, pc, recommendation) ==
    /\ tasks' = [tasks EXCEPT ![t].pc = pc, ![t].recommendation = recommendation]
    /\ UNCHANGED active_missions

\* The head of the loop, for the objective after the i-th, when the status
\* of the mission is `status`: the loop is over at the end of the objectives
\* and at a status other than "active", and what follows the loop marks the
\* mission complete.
loop_head(t, status) ==
    IF tasks[t].i + 1 > tasks[t].n \/ status # "active"
    THEN end_task(t, "completed")
    ELSE /\ tasks' = [tasks EXCEPT ![t].i = @ + 1, ![t].pc = "analyze",
                                   ![t].recommendation = ""]
         /\ active_missions' = set_status(active_missions, tasks[t].mission_id, status)

\* One step of the task t: from where it is suspended to its next await, or
\* to its end.  outcome is what the await it resumes from gave.
ExecuteMissionStep(t, outcome) ==
    /\ t \in 1..Len(tasks)
    /\ outcome \in Outcomes
    /\ UNCHANGED <<emergency_stop_active, safety_logs, last, log_effect, now, response>>
    /\ CASE tasks[t].pc = "start" -> loop_head(t, "active")
         [] tasks[t].pc = "sleep" ->
               loop_head(t, active_missions[tasks[t].mission_id])
         [] outcome.raises -> end_task(t, "failed")
         [] tasks[t].pc = "analyze" ->
               IF outcome.requires_human_approval
               THEN suspend_task(t, "wait_for_approval", outcome.recommendation)
               ELSE IF outcome.recommendation # "skip"
               THEN suspend_task(t, "execute", outcome.recommendation)
               ELSE suspend_task(t, "sleep", outcome.recommendation)
         [] tasks[t].pc = "wait_for_approval" ->
               IF tasks[t].recommendation # "skip"
               THEN suspend_task(t, "execute", tasks[t].recommendation)
               ELSE suspend_task(t, "sleep", tasks[t].recommendation)
         [] tasks[t].pc = "execute" ->
               suspend_task(t, "sleep", tasks[t].recommendation)

\* CognitiveEngine.emergency_stop on the missions
cognitive_emergency_stop(missions) ==
    [k \in DOMAIN missions |->
        IF missions[k] = "active" THEN "emergency_stopped" ELSE missions[k]]

-----------------------------------------------------------------------------
(* main.py: the request handlers that call the engines *)

\* The answer of a handler: the status code, the services and tasks it
\* invoked after the safety check, and the safety check it was given.
Response(op, status, invoked, check) ==
    [op |-> op, status |-> status, invoked |-> invoked, check |-> check]

\* POST /api/missions that asks the mission service whatever the safety
\* check says.
CreateMission_unchecked(mission, service_ok) ==
    \E stopped \in {emergency_stop_active} :
    \E out \in {mission_checks[stopped][mission]} :
        /\ safety_logs' =
              IF stopped THEN safety_logs
              ELSE log_safety_checks(safety_logs, "mission_objective",
                                     out.all_checks, stopped, 1)
        /\ log_effect' = Written(IF stopped THEN 0 ELSE Len(out.all_checks))
        /\ last' = Call("validate_mission", "", EmptyDict, mission,
                        stopped, out.ret, out.all_checks)
        /\ response' =
              IF out.ret.raised THEN Response("create_mission", 500, {}, out.ret)
              ELSE Response("create_mission", IF service_ok THEN 200 ELSE 500,
                            {"mission_service.create_mission"}, out.ret)
        /\ UNCHANGED <<emergency_stop_active, now, active_missions, tasks>>

\* POST /api/missions: validate_mission, 403 unless it approves, then
\* mission_service.create_mission, which answers or raises (500).  An
\* exception of validate_mission is answered with 500 as well.
CreateMission(mission, service_ok) ==
    \E stopped \in {emergency_stop_active} :
    \E out \in {mission_checks[stopped][mission]} :
        /\ safety_logs' =
              IF stopped THEN safety_logs
              ELSE log_safety_checks(safety_logs, "mission_objective",
                                     out.all_checks, stopped, 1)
        /\ log_effect' = Written(IF stopped THEN 0 ELSE Len(out.all_checks))
        /\ last' = Call("validate_mission", "", EmptyDict, mission,
                        stopped, out.ret, out.all_checks)
        /\ response' =
              IF out.ret.raised THEN Response("create_mission", 500, {}, out.ret)
              ELSE IF ~Truthy(out.ret.approved)
              THEN Response("create_mission", 403, {}, out.ret)
              ELSE Response("create_mission", IF service_ok THEN 200 ELSE 500,
                            {"mission_service.create_mission"}, out.ret)
        /\ UNCHANGED <<emergency_stop_active, now, active_missions, tasks>>

\* POST /api/missions/{mission_id}/start for a mission get_mission_by_id
\* finds (found) with n objectives: validate_mission_execution, 403 unless it
\* approves, then mission_service.start_mission, which answers or raises
\* (500), then the execute_mission task.
StartMission(mission, n, found, service_ok) ==
    /\ Len(tasks) < MaxTasks
    /\ IF ~found
       THEN /\ response' = Response("start_mission", 404, {}, ReturnedNone)
            /\ UNCHANGED <<emergency_stop_active, safety_logs, last, log_effect,
                           now, active_missions, tasks>>
       ELSE \E stopped \in {emergency_stop_active} :
            \E context \in {execution_context(mission)} :
            \E ret \in {validate_action(stopped, "mission_execution", context)} :
                /\ safety_logs' =
                      IF stopped \/ ret.raised THEN safety_logs
                      ELSE log_safety_check(safety_logs, "mission_execution", ret, stopped)
                /\ log_effect' = Written(IF stopped \/ ret.raised THEN 0 ELSE 1)
                /\ last' = Call("validate_mission_execution", "mission_execution",
                                context, NoMission, stopped, ret, <<>>)
                /\ response' =
                      IF ret.raised THEN Response("start_mission", 500, {}, ret)
                      ELSE IF ~Truthy(ret.approved)
                      THEN Response("start_mission", 403, {}, ret)
                      ELSE IF ~service_ok
                      THEN Response("start_mission", 500,
                                    {"mission_service.start_mission"}, ret)
                      ELSE Response("start_mission", 200,
                                    {"mission_service.start_mission",
                                     "cognitive_engine.execute_mission"}, ret)
                /\ tasks' =
                      IF response'.status = 200
                      THEN Append(tasks, Task(mission.id, n))
                      ELSE tasks
                /\ UNCHANGED <<emergency_stop_active, now, active_missions>>

\* POST /api/auth/login: 401 unless authenticate_user succeeds
\* (authenticated), then validate_action("user_login", ...), 403 unless it
\* approves.
Login(authenticated) ==
    IF ~authenticated
    THEN /\ response' = Response("login", 401, {}, ReturnedNone)
         /\ UNCHANGED <<emergency_stop_active, safety_logs, last, log_effect,
                        now, active_missions, tasks>>
    ELSE \E stopped \in {emergency_stop_active} :
         \E ret \in {validate_action(stopped, "user_login", LoginContext)} :
             /\ safety_logs' =
                   IF stopped \/ ret.raised THEN safety_logs
                   ELSE log_safety_check(safety_logs, "user_login", ret, stopped)
             /\ log_effect' = Written(IF stopped \/ ret.raised THEN 0 ELSE 1)
             /\ last' = Call("validate_action", "user_login", LoginContext,
                             NoMission, stopped, ret, <<>>)
             /\ response' =
                   IF ret.raised THEN Response("login", 500, {}, ret)
                   ELSE IF ~Truthy(ret.approved) THEN Response("login", 403, {}, ret)
                   ELSE Response("login", 200, {}, ret)
             /\ UNCHANGED <<emergency_stop_active, now, active_missions, tasks>>

\* POST /api/missions/emergency-stop: mission_service.emergency_stop_all,
\* which answers or raises (500), then cognitive_engine.emergency_stop().
EmergencyStopRequest(service_ok) ==
    /\ response' =
          IF ~service_ok
          THEN Response("emergency_stop", 500,
                        {"mission_service.emergency_stop_all"}, ReturnedNone)
          ELSE Response("emergency_stop", 200,
                        {"mission_service.emergency_stop_all",
                         "cognitive_engine.emergency_stop"}, ReturnedNone)
    /\ active_missions' =
          IF service_ok THEN cognitive_emergency_stop(active_missions)
          ELSE active_missions
    /\ UNCHANGED <<emergency_stop_active, safety_logs, last, log_effect, now, tasks>>

\* The requests, the tasks they start for missions without objectives, and
\* the operations of the safety engine on its flag.
NextRequest ==
    \/ \E m \in RequestMissions, ok \in BOOLEAN : CreateMission(m, ok)
    \/ \E m \in ExecutionMissions, found, ok \in BOOLEAN : StartMission(m, 0, found, ok)
    \/ \E authenticated \in BOOLEAN : Login(authenticated)
    \/ \E ok \in BOOLEAN : EmergencyStopRequest(ok)
    \/ \E t \in 1..Len(tasks), outcome \in Outcomes : ExecuteMissionStep(t, outcome)
    \/ EmergencyStop
    \/ \E o \in OperatorIds : DeactivateEmergencyStop(o)

SpecRequest == Init /\ [][NextRequest]_vars

\* The execution of the missions that are started, and the emergency stop of
\* the request layer.
NextCognitive ==
    \/ \E m \in ExecutionMissions, n \in ObjectiveCounts : StartMission(m, n, TRUE, TRUE)
    \/ \E t \in 1..Len(tasks), outcome \in Outcomes : ExecuteMissionStep(t, outcome)
    \/ \E ok \in BOOLEAN : EmergencyStopRequest(ok)

SpecCognitive == Init /\ [][NextCognitive]_vars

\* The calls on single actions, with every input of the model.
Next ==
    \/ \E a \in ActionTypes, c \in Contexts : ValidateAction(a, c)
    \/ EmergencyStop
    \/ \E o \in OperatorIds : DeactivateEmergencyStop(o)

Spec == Init /\ [][Next]_vars

\* The calls on missions, with one action that carries no attribute.
NextMission ==
    \/ ValidateAction("data_export", EmptyDict)
    \/ \E m \in Missions : ValidateMission(m)
    \/ EmergencyStop
    \/ \E o \in OperatorIds : DeactivateEmergencyStop(o)

SpecMission == Init /\ [][NextMission]_vars

\* The inputs of the calls on the log: an action that is approved, one that
\* is refused, and one whose evaluation raises.
AuditActionTypes == {"data_export", "doxxing"}
AuditContexts == {c \in Contexts : DOMAIN c \subseteq {"data_type"}}

\* Every operation, with those inputs for validate_action.
NextAudit ==
    \/ \E a \in AuditActionTypes, c \in AuditContexts : ValidateAction(a, c)
    \/ \E m \in BareMissions : ValidateMission(m)
    \/ \E m \in ExecutionMissions : ValidateMissionExecution(m)
    \/ EmergencyStop
    \/ \E o \in OperatorIds : DeactivateEmergencyStop(o)
    \/ GetStatus

SpecAudit == Init /\ [][NextAudit]_vars

\* The clock datetime.utcnow() reads moves on by d seconds between two calls.
Tick(d) ==
    /\ now + d <= MaxClock
    /\ now' = now + d
    /\ UNCHANGED <<emergency_stop_active, safety_logs, last, log_effect,
                   active_missions, tasks, response>>

\* The steps of the clock: half an hour, and a day.
ClockSteps == {1800, 86400}

\* The calls that write and count the entries of the log, under a clock
\* that moves.
NextClock ==
    \/ ValidateAction("data_export", EmptyDict)
    \/ EmergencyStop
    \/ GetStatus
    \/ \E d \in ClockSteps : Tick(d)

SpecClock == Init /\ [][NextClock]_vars

\* The calls on single actions whose context may carry an action_type entry.
NextOverride ==
    \/ \E a \in ActionTypes, c \in OverrideContexts \cup {EmptyDict} :
           ValidateAction(a, c)
    \/ EmergencyStop
    \/ \E o \in OperatorIds : DeactivateEmergencyStop(o)

SpecOverride == Init /\ [][NextOverride]_vars

-----------------------------------------------------------------------------
(* Properties *)

IsAction == last.op = "validate_action"
IsMission == last.op = "validate_mission"

\* An enabled rule with this action matches the input.
RuleMatches(action, action_type, context) ==
    \E i \in 1..Len(rules) :
        /\ rules[i].enabled
        /\ rules[i].action = action
        /\ evaluate_rule_condition(rules[i], action_type, context)

\* A danger pattern matches the description of the context.
PatternMatches(context) ==
    /\ "description" \in DOMAIN context
    /\ context["description"].t = "str"
    /\ \E i \in 1..Len(dangerous_patterns) :
           re_search(dangerous_patterns[i], context["description"].s)

\* The context carries operator_approved set to the boolean true.
DeclaresOperatorApproval(context) ==
    /\ "operator_approved" \in DOMAIN context
    /\ context["operator_approved"] = PyTrue

\* C1 as stated: while the emergency stop is active validate_action returns
\* approved=false, PROHIBITED, violated_rules=["emergency_stop"] and the
\* reason "Emergency stop is active".
C1_StoppedVerdictAsStated ==
    (IsAction /\ last.stopped) =>
        /\ ~last.ret.raised
        /\ last.ret.approved = PyFalse
        /\ last.ret.safety_level = PROHIBITED
        /\ last.ret.violated_rules = <<"emergency_stop">>
        /\ last.ret.reason = "Emergency stop is active"

\* C1 amended: while the emergency stop is active validate_action returns, for
\* every action type and context, the same verdict: approved=false,
\* PROHIBITED, violated_rules=["emergency_stop"], violated_laws=[FIRST],
\* requires_approval=false and the reason "Emergency stop is active - all
\* operations suspended"; nothing of the input shows in it.
C1_StoppedVerdict ==
    (IsAction /\ last.stopped) =>
        /\ ~last.ret.raised
        /\ last.ret.approved = PyFalse
        /\ last.ret.safety_level = PROHIBITED
        /\ last.ret.violated_rules = <<"emergency_stop">>
        /\ last.ret.violated_laws = {FIRST}
        /\ last.ret.requires_approval = FALSE
        /\ last.ret.recommendations = <<"Wait for emergency stop to be deactivated">>
        /\ last.ret.reason = "Emergency stop is active - all operations suspended"

\* C1 witness: a call under the emergency stop whose input, evaluated, would
\* not give that verdict (it is approved when the stop is off).
C1_Witness ==
    /\ IsAction
    /\ last.stopped
    /\ last.action_type = "data_export"
    /\ DeclaresOperatorApproval(last.context)
    /\ "involves_private_data" \in DOMAIN last.context
    /\ last.ret.safety_level = PROHIBITED

\* C2: while the emergency stop is active validate_mission returns
\* approved=false and PROHIBITED for every mission descriptor, also one whose
\* objectives list is empty or missing.
C2_StoppedMissionRejected ==
    (IsMission /\ last.stopped) =>
        /\ ~last.ret.raised
        /\ last.ret.approved = PyFalse
        /\ last.ret.safety_level = PROHIBITED

\* C3: for every prohibited action type and every context validate_action
\* returns approved=false, PROHIBITED and violated_laws containing FIRST.
C3_ProhibitedActionRejected ==
    (IsAction /\ last.action_type \in prohibited_actions) =>
        /\ ~last.ret.raised
        /\ last.ret.approved = PyFalse
        /\ last.ret.safety_level = PROHIBITED
        /\ FIRST \in last.ret.violated_laws

\* The context a verdict was given for: that of the call, or the top-level
\* fields of the mission.
VerdictContext == IF IsMission THEN last.mission.fields ELSE last.context

\* C4: every verdict of validate_action or validate_mission with approved=true
\* has no violated law, is not PROHIBITED, and either does not require
\* approval or its context declares operator approval.
C4_ApprovedImplies ==
    ((IsAction \/ IsMission) /\ ~last.ret.raised /\ last.ret.approved = PyTrue) =>
        /\ last.ret.violated_laws = {}
        /\ last.ret.safety_level # PROHIBITED
        /\ (~last.ret.requires_approval \/ DeclaresOperatorApproval(VerdictContext))

\* C5: validate_action returns a verdict for every action type and every
\* context and never raises an exception to its caller.
C5_AlwaysReturnsVerdict ==
    IsAction => ~last.ret.raised

\* The place of a level in the order SAFE < CAUTION < DANGEROUS < PROHIBITED
LevelOrder == <<SAFE, CAUTION, DANGEROUS, PROHIBITED>>

LevelRank(l) == CHOOSE i \in 1..Len(LevelOrder) : LevelOrder[i] = l

\* The greatest level of a set of levels under that order
MaxLevel(S) == CHOOSE l \in S : \A m \in S : LevelRank(m) <= LevelRank(l)

\* The levels the matched sources of an input contribute
SourceLevels(action_type, context) ==
    {SAFE}
    \cup (IF action_type \in prohibited_actions THEN {PROHIBITED} ELSE {})
    \cup (IF PatternMatches(context) THEN {DANGEROUS} ELSE {})
    \cup (IF RuleMatches("block", action_type, context) THEN {PROHIBITED} ELSE {})
    \cup (IF RuleMatches("require_approval", action_type, context) THEN {CAUTION} ELSE {})

\* C6: the safety level of every validate_action verdict is the maximum of the
\* levels its matched sources contribute (prohibited action: PROHIBITED,
\* danger pattern: DANGEROUS, block rule: PROHIBITED, require_approval rule:
\* CAUTION), and SAFE when nothing matched.
C6_LevelIsMaxOfSources ==
    (IsAction /\ ~last.stopped) =>
        /\ ~last.ret.raised
        /\ last.ret.safety_level =
               MaxLevel(SourceLevels(last.action_type, last.context))

\* The single context attributes that make a block rule match: the name and
\* a value of each block rule whose condition tests one name.
BlockTriggers ==
    UNION {
        LET r == rules[i]
        IN  IF ~r.enabled \/ r.action # "block" THEN {}
            ELSE IF r.condition.op = "in"
                 THEN {<<r.condition.name, PyStr(r.condition.vals[j])>> :
                          j \in 1..Len(r.condition.vals)}
            ELSE IF r.condition.op = "eq"
                 THEN {<<r.condition.name, r.condition.val>>}
            ELSE {}
        : i \in 1..Len(rules)}

\* The context with one attribute added
WithAttr(context, name, val) == Merge(context, [k \in {name} |-> val])

Rejected(check) ==
    /\ ~check.raised
    /\ check.safety_level = PROHIBITED
    /\ check.approved = PyFalse

\* C7: when validate_action gave an input a SAFE verdict, the same input with
\* one PROHIBITED-triggering condition added (a prohibited action type in
\* place of its own, or one context attribute that makes a block rule match)
\* gets a PROHIBITED verdict with approved=false.
C7_TriggerOnSafeGivesProhibited ==
    (IsAction /\ ~last.stopped /\ ~last.ret.raised /\ last.ret.safety_level = SAFE) =>
        /\ \A p \in prohibited_actions :
               \A check \in {evaluate_action(p, last.context)} : Rejected(check)
        /\ \A t \in BlockTriggers :
               t[1] \notin DOMAIN last.context =>
                   \A check \in {evaluate_action(last.action_type,
                                     WithAttr(last.context, t[1], t[2]))} :
                       Rejected(check)

\* C7 witness: a SAFE, approved verdict for an input on which a rule matched
\* (fl_005, with the operator's approval), and the same input with
\* target_type = "hospital" added is PROHIBITED.
C7_Witness ==
    /\ IsAction
    /\ ~last.stopped
    /\ ~last.ret.raised
    /\ last.ret.safety_level = SAFE
    /\ last.ret.approved = PyTrue
    /\ last.ret.requires_approval
    /\ "target_type" \notin DOMAIN last.context
    /\ Rejected(evaluate_action(last.action_type,
                    WithAttr(last.context, "target_type", PyStr("hospital"))))

\* C8: when an enabled require_approval rule matches and nothing else is
\* violated, validate_action returns requires_approval=true, CAUTION and
\* approved=false, and approved=true when the context also carries
\* operator_approved=true.
C8_RequireApprovalVerdict ==
    (/\ IsAction
     /\ ~last.stopped
     /\ RuleMatches("require_approval", last.action_type, last.context)
     /\ ~RuleMatches("block", last.action_type, last.context)
     /\ ~PatternMatches(last.context)
     /\ last.action_type \notin prohibited_actions
     /\ ("operator_approved" \in DOMAIN last.context =>
            DeclaresOperatorApproval(last.context))) =>
        /\ ~last.ret.raised
        /\ last.ret.requires_approval
        /\ last.ret.safety_level = CAUTION
        /\ last.ret.approved =
               (IF DeclaresOperatorApproval(last.context) THEN PyTrue ELSE PyFalse)

\* C9: when the description matches a danger pattern and neither a prohibited
\* action nor a block rule applies, validate_action returns violated_laws
\* containing FIRST, the level DANGEROUS and approved=false.
C9_DangerPatternVerdict ==
    (/\ IsAction
     /\ ~last.stopped
     /\ PatternMatches(last.context)
     /\ last.action_type \notin prohibited_actions
     /\ ~RuleMatches("block", last.action_type, last.context)) =>
        /\ ~last.ret.raised
        /\ FIRST \in last.ret.violated_laws
        /\ last.ret.safety_level = DANGEROUS
        /\ last.ret.approved = PyFalse

\* The rule ids of the block rules
BlockRuleIds == {rules[i].id : i \in {j \in 1..Len(rules) : rules[j].action = "block"}}

\* C10: validate_mission returns approved=true if and only if the check of
\* every objective returned approved=true; a mission with an objective check
\* that violates a block rule gets approved=false and PROHIBITED.
C10_MissionApprovedIffAll ==
    (IsMission /\ ~last.ret.raised) =>
        /\ (last.ret.approved = PyTrue) <=>
               (\A i \in 1..Len(last.all_checks) :
                    last.all_checks[i].approved = PyTrue)
        /\ (\E i \in 1..Len(last.all_checks) :
                Range(last.all_checks[i].violated_rules) \cap BlockRuleIds # {}) =>
               (last.ret.approved = PyFalse /\ last.ret.safety_level = PROHIBITED)

\* C11: the validate_mission verdict aggregates the objective verdicts:
\* safety level = the maximum of their levels (SAFE with no objective),
\* violated laws and violated rules = the set union over the objectives,
\* requires_approval = the OR over the objectives, recommendations = empty.
C11_MissionAggregate ==
    (IsMission /\ ~last.ret.raised) =>
        /\ last.ret.safety_level =
               MaxLevel({SAFE} \cup {last.all_checks[i].safety_level :
                                        i \in 1..Len(last.all_checks)})
        /\ last.ret.violated_laws =
               UNION {last.all_checks[i].violated_laws : i \in 1..Len(last.all_checks)}
        /\ last.ret.violated_rules =
               UNION {Range(last.all_checks[i].violated_rules) :
                         i \in 1..Len(last.all_checks)}
        /\ last.ret.requires_approval =
               (\E i \in 1..Len(last.all_checks) : last.all_checks[i].requires_approval)
        /\ last.ret.recommendations = <<>>

\* C11 witness: a mission of two objectives whose checks violate a rule, with
\* the flag off, and a verdict that is PROHIBITED and names a violated law.
C11_Witness ==
    /\ IsMission
    /\ ~last.stopped
    /\ ~last.ret.raised
    /\ Len(last.all_checks) = 2
    /\ last.ret.safety_level = PROHIBITED
    /\ last.ret.violated_laws # {}
    /\ last.ret.violated_rules # {}

\* The action type of the entries a call writes
NewEntryType(call) ==
    CASE call.op = "validate_action" -> call.action_type
      [] call.op = "validate_mission" -> "mission_objective"
      [] call.op = "validate_mission_execution" -> "mission_execution"
      [] call.op = "emergency_stop" -> "emergency_stop"
      [] OTHER -> ""

\* A step on the log: the entries of the old log that survive are its newest
\* ones, in their order, at the head of the new log; an old entry goes only
\* when the log is full; the entry appended last is the last of the log.
C12_TrimStep ==
    LET old == safety_logs
        new == safety_logs'
        n == log_effect'.appended
        kept == IF n < Len(new) THEN Len(new) - n ELSE 0
    IN  /\ Len(new) <= MaxLogs
        /\ kept <= Len(old)
        /\ \A i \in 1..kept : new[i] = old[Len(old) - kept + i]
        /\ kept < Len(old) => Len(new) = MaxLogs
        /\ n > 0 => /\ Len(new) > 0
                    /\ new[Len(new)].action_type = NewEntryType(last')

\* C12: after any sequence of operations the log holds at most its capacity
\* of entries (MaxLogs here, 10000 in the program); when an append overflows,
\* the entries removed are the oldest, the order of the others is kept, and
\* the entry appended last is present.
C12_LogBoundedOldestEvicted ==
    [](Len(safety_logs) <= MaxLogs) /\ [][C12_TrimStep]_vars

\* C12 witness: a call appended one entry to a full log and the trim removed
\* one entry; the log is at its capacity.
C12_Witness ==
    /\ log_effect.appended = 1
    /\ log_effect.evicted = 1
    /\ Len(safety_logs) = MaxLogs
    /\ safety_logs[Len(safety_logs)].action_type = NewEntryType(last)

\* C13: every validate_action call that returns a verdict appends exactly
\* one entry to the log, also a call under the emergency stop.
C13_EachCallLogged ==
    (IsAction /\ ~last.ret.raised) => log_effect.appended = 1

\* C14: for every input, the verdict validate_action returns after
\* emergency_stop() followed by deactivate_emergency_stop() equals the
\* verdict for that input before the stop: deactivate_emergency_stop leaves
\* the flag off, and every call made with the flag off returns what the
\* evaluation of its input gives on an engine that was never stopped.
C14_NoResidueOfStop ==
    /\ last.op = "deactivate_emergency_stop" => ~emergency_stop_active
    /\ (IsAction /\ ~emergency_stop_active) =>
           last.ret = action_checks[last.action_type][last.context]

\* C14 witness: an approved verdict of a call made with the flag off while
\* the log holds the entry of an earlier emergency stop.
C14_Witness ==
    /\ IsAction
    /\ ~last.stopped
    /\ last.ret.approved = PyTrue
    /\ log_effect.appended = 1
    /\ \E i \in 1..Len(safety_logs) : safety_logs[i].action_type = "emergency_stop"

\* The flag after a step: true after emergency_stop, false after
\* deactivate_emergency_stop, unchanged after every other operation.
C15_FlagStep ==
    /\ last'.op = "emergency_stop" => emergency_stop_active'
    /\ last'.op = "deactivate_emergency_stop" => ~emergency_stop_active'
    /\ last'.op \notin {"emergency_stop", "deactivate_emergency_stop"} =>
           emergency_stop_active' = emergency_stop_active

\* C15: the emergency-stop flag is false on construction and only
\* emergency_stop and deactivate_emergency_stop change it: emergency_stop
\* leaves it true from either state, deactivate_emergency_stop leaves it
\* false, and no validate or status operation changes it.
C15_FlagStateMachine ==
    (~emergency_stop_active) /\ [][C15_FlagStep]_vars

\* C15 witness: emergency_stop called while the flag was already true, and
\* the flag is true.
C15_Witness ==
    /\ last.op = "emergency_stop"
    /\ last.stopped
    /\ emergency_stop_active

\* C16: each call of emergency_stop and each call of
\* deactivate_emergency_stop appends a log entry that records the transition.
C16_TransitionsLogged ==
    (last.op \in {"emergency_stop", "deactivate_emergency_stop"}) =>
        /\ log_effect.appended = 1
        /\ safety_logs[Len(safety_logs)].action_type = last.op

\* C17: validate_mission_execution evaluates the state of the call by
\* validate_action("mission_execution", {mission_id, status, priority,
\* operator_id}): while the emergency stop is active it returns
\* approved=false, also for a mission validate_mission approved before the
\* stop, and with the flag off it returns the evaluation of that context.
C17_ExecutionReadsCurrentState ==
    (last.op = "validate_mission_execution") =>
        /\ last.action_type = "mission_execution"
        /\ DOMAIN last.context = {"mission_id", "status", "priority", "operator_id"}
        /\ last.stopped => (~last.ret.raised /\ last.ret.approved = PyFalse
                            /\ last.ret.safety_level = PROHIBITED)
        /\ ~last.stopped =>
               last.ret = action_checks["mission_execution"][last.context]

\* C17 witness: validate_mission_execution refused under the emergency stop,
\* the log holding the entry of an objective check of an approved mission
\* and, after it, the entry of the emergency stop.
C17_Witness ==
    /\ last.op = "validate_mission_execution"
    /\ last.stopped
    /\ last.ret.approved = PyFalse
    /\ \E i, j \in 1..Len(safety_logs) :
           /\ i < j
           /\ safety_logs[i].action_type = "mission_objective"
           /\ safety_logs[j].action_type = "emergency_stop"

\* C18: no validate_action or validate_mission call that starts after
\* emergency_stop() has completed, and before the deactivation, returns
\* approved=true.
C18_NoApprovalUnderStop ==
    ((IsAction \/ IsMission) /\ last.stopped) =>
        (~last.ret.raised /\ last.ret.approved # PyTrue)

\* The last n elements of a sequence
Suffix(seq, n) == SubSeq(seq, Len(seq) - n + 1, Len(seq))

\* A step on the log as one append-then-trim of the entries of the call: the
\* new log is the end of the old log followed by the appended entries.
C19_AppendTrimStep ==
    LET old == safety_logs
        new == safety_logs'
        n == log_effect'.appended
        total == Len(old) + n
        m == IF n < MaxLogs THEN n ELSE MaxLogs
    IN  /\ Len(new) = (IF total < MaxLogs THEN total ELSE MaxLogs)
        /\ new = Suffix(old \o Suffix(new, m), Len(new))

\* C19: under any interleaving of the callers that append to the log the
\* append-then-trim is atomic: no appended entry is lost but by the eviction
\* of the oldest, the entries stay in append order, and the count never
\* exceeds the capacity (MaxLogs here, 10000 in the program).
C19_AppendTrimAtomic ==
    [](Len(safety_logs) <= MaxLogs) /\ [][C19_AppendTrimStep]_vars

\* C19 witness: a mission call appended two entries to a log that held
\* entries of other calls, and the trim evicted of them.
C19_Witness ==
    /\ IsMission
    /\ log_effect.appended = 2
    /\ log_effect.evicted >= 1
    /\ Len(safety_logs) = MaxLogs

\* C20: in every log entry written for a validate_action call the recorded
\* emergency-stop flag is the value of the flag the short-circuit test of
\* that call observed.
C20_EntryFlagIsObserved ==
    (IsAction /\ log_effect.appended = 1) =>
        /\ safety_logs[Len(safety_logs)].action_type = last.action_type
        /\ safety_logs[Len(safety_logs)].emergency_stop_active = last.stopped

\* C20 witness: a validate_action call wrote its entry after an emergency
\* stop had been activated and deactivated; the entry before it records the
\* flag as true.
C20_Witness ==
    /\ IsAction
    /\ log_effect.appended = 1
    /\ Len(safety_logs) >= 2
    /\ safety_logs[Len(safety_logs) - 1].emergency_stop_active
    /\ ~safety_logs[Len(safety_logs)].emergency_stop_active

\* A validate_action step: the flag is left as it was, the log changes at
\* most by one appended entry (with the trim), and a call that follows a call
\* with the same input made under the same flag returns the same outcome.
C21_ValidateStep ==
    (last'.op = "validate_action") =>
        /\ emergency_stop_active' = emergency_stop_active
        /\ log_effect'.appended <= 1
        /\ \E k \in 0..Len(safety_logs) :
               Suffix(safety_logs, k) =
                   SubSeq(safety_logs', 1, Len(safety_logs') - log_effect'.appended)
        /\ (/\ last.op = "validate_action"
            /\ last.action_type = last'.action_type
            /\ last.context = last'.context
            /\ last.stopped = last'.stopped) => last'.ret = last.ret

\* C21: validate_action is deterministic and changes no engine state but the
\* log: it leaves the emergency-stop flag as it was (the rules with their
\* enabled flags, the prohibited set and the patterns are assigned by no
\* operation after initialize), and two calls with the same input in the same
\* engine state return equal verdicts, whatever the log holds.
C21_DeterministicNoSideEffect ==
    [][C21_ValidateStep]_vars

\* C21 witness: a validate_action call returned a verdict and wrote its
\* entry, the call before it with the same action type having written the
\* entry before; the flag is off.
C21_Witness ==
    /\ IsAction
    /\ ~last.ret.raised
    /\ ~emergency_stop_active
    /\ log_effect.appended = 1
    /\ Len(safety_logs) >= 2
    /\ safety_logs[Len(safety_logs) - 1].action_type = last.action_type

\* The names a condition refers to
RECURSIVE CondNames(_)
CondNames(cond) ==
    CASE cond.op = "and" -> CondNames(cond.left) \cup CondNames(cond.right)
      [] cond.op = "lt" -> {cond.name, cond.other}
      [] OTHER -> {cond.name}

\* The condition of the rule refers to an attribute the call does not give.
MissingAttr(rule, action_type, context) ==
    ~(CondNames(rule.condition) \subseteq DOMAIN eval_context(action_type, context))

\* The description of the context is given and is no text.
DescriptionNotText(context) ==
    "description" \in DOMAIN context /\ context["description"].t # "str"

\* C22: a rule whose condition refers to an attribute absent from the
\* context does not match in that call: it adds nothing to the violated
\* rules, the recommendations or the approval requirement, the absence makes
\* no error reach the caller, and the rules after it are still evaluated.
C22_MissingAttributeNotMatched ==
    (IsAction /\ ~last.stopped) =>
        LET a == last.action_type
            c == last.context
            ret == last.ret
        IN  /\ \A i \in 1..Len(rules) :
                   MissingAttr(rules[i], a, c) =>
                       /\ ~evaluate_rule_condition(rules[i], a, c)
                       /\ rules[i].id \notin Range(ret.violated_rules)
                       /\ \A k \in 1..Len(ret.recommendations) :
                              ret.recommendations[k] \notin
                                  {"Requires approval: " \o rules[i].description,
                                   "Requires justification: " \o rules[i].description}
            /\ ret.raised =>
                   \/ PatternMatches(c)
                   \/ DescriptionNotText(c)
                   \/ \E i \in 1..Len(rules) :
                          /\ ~MissingAttr(rules[i], a, c)
                          /\ evaluate_rule_condition(rules[i], a, c)
            /\ ~ret.raised =>
                   \A j \in 1..Len(rules) :
                       (/\ rules[j].action = "block"
                        /\ evaluate_rule_condition(rules[j], a, c))
                           => rules[j].id \in Range(ret.violated_rules)

\* C22 witness: a call returned a verdict that lists a block rule, and the
\* condition of a rule registered before it refers to an attribute the
\* context lacks.
C22_Witness ==
    /\ IsAction
    /\ ~last.stopped
    /\ ~last.ret.raised
    /\ \E i, j \in 1..Len(rules) :
           /\ i < j
           /\ MissingAttr(rules[i], last.action_type, last.context)
           /\ rules[j].id \in Range(last.ret.violated_rules)

\* The entries of the log written within the hour before now
EntriesWithinWindow ==
    {i \in 1..Len(safety_logs) :
        /\ fromisoformat(safety_logs[i].timestamp) <= now
        /\ now - fromisoformat(safety_logs[i].timestamp) < 3600}

\* A get_status step: what it returns is told of the engine and the clock of
\* that step.
C23_StatusStep ==
    (last'.op = "get_status" /\ now' = now) =>
        /\ ~last'.ret.raised
        /\ last'.ret.emergency_stop = emergency_stop_active
        /\ last'.ret.rules_count = Len(rules)
        /\ last'.ret.prohibited_actions = Cardinality(prohibited_actions)
        /\ last'.ret.recent_checks = Cardinality(EntriesWithinWindow)

\* C23: get_status reports the current emergency-stop flag, the number of
\* rules, the number of prohibited actions, and as recent_checks the number
\* of log entries whose timestamp lies within the hour before now; an entry
\* older than that is not counted, however old it is.
C23_StatusCountsWindow ==
    [][C23_StatusStep]_vars

RuleIds == {rules[i].id : i \in 1..Len(rules)}

\* The enabled rules whose condition matches the input, in registration order
MatchedRules(action_type, context) ==
    SelectSeq(rules, LAMBDA r : r.enabled /\ evaluate_rule_condition(r, action_type, context))

\* The matched rules whose action is one of `actions`, in registration order
MatchedWith(actions, action_type, context) ==
    SelectSeq(MatchedRules(action_type, context), LAMBDA r : r.action \in actions)

\* What a matched rule adds to the recommendations
RecommendationOf(rule) ==
    IF rule.action = "require_approval"
    THEN "Requires approval: " \o rule.description
    ELSE "Requires justification: " \o rule.description

C25_ApprovedIsBoolean ==
    (IsAction /\ ~last.ret.raised) =>
        /\ last.ret.approved \in {PyTrue, PyFalse}
        /\ (last.ret.requires_approval /\ ~DeclaresOperatorApproval(last.context)) =>
               last.ret.approved = PyFalse

\* The context without its entry named k
Without(context, k) == [x \in DOMAIN context \ {k} |-> context[x]]

\* C26: the conditions that test action_type are evaluated against the
\* action_type argument of the call: an entry of the context named
\* action_type changes neither the rules that match nor the verdict.
C26_ActionTypeIsArgument ==
    (IsAction /\ ~last.stopped) =>
        LET a == last.action_type
            c == last.context
        IN  /\ \A i \in 1..Len(rules) :
                   evaluate_rule_condition(rules[i], a, c)
                       = evaluate_rule_condition(rules[i], a, Without(c, "action_type"))
            /\ last.ret = action_checks[a][Without(c, "action_type")]

\* The attributes the objective of each kind carries
ObjectiveAttrs(kind) ==
    IF kind = "obj_hospital"
    THEN [k \in {"target_type"} |-> PyStr("hospital")]
    ELSE [k \in {"description"} |-> PyStr("port scan of the lab network")]

\* The attributes of the objective name a target a block rule protects.
HazardousObjective(kind) ==
    RuleMatches("block", "mission_objective", ObjectiveAttrs(kind))

\* C27: in validate_mission the attributes of an objective are seen by the
\* rule conditions of the check of that objective: an objective whose
\* target_type is "hospital" makes its check, and so the mission, not
\* approved.
C27_ObjectiveAttributesSeen ==
    (IsMission /\ ~last.stopped /\ ~last.ret.raised) =>
        \A i \in 1..Len(mission_objectives(last.mission)) :
            HazardousObjective(mission_objectives(last.mission)[i]) =>
                /\ last.all_checks[i].approved = PyFalse
                /\ last.ret.approved = PyFalse

\* After a step that leaves the emergency-stop request answered with 200 as
\* the last request, no call on the safety engine having followed it, the
\* flag of the safety engine is active.
C28_Step ==
    (/\ response'.op = "emergency_stop"
     /\ response'.status = 200
     /\ last' = last) => emergency_stop_active'

\* C28: once the emergency-stop request has been answered with success the
\* emergency-stop flag of the safety engine is active, so that the safety
\* check of every later create, start or login request refuses until the
\* stop is deactivated.
C28_RequestStopsEngine ==
    [][C28_Step]_vars

\* A step that ends a task which had begun its objectives: if the status of
\* its mission was "emergency_stopped", the step does not set it to
\* "completed".
C29_Step ==
    \A t \in 1..Len(tasks) :
        (/\ tasks[t].pc # "start"
         /\ tasks' = Remove(tasks, t)
         /\ active_missions[tasks[t].mission_id] = "emergency_stopped")
            => active_missions'[tasks[t].mission_id] # "completed"

\* C29: a mission whose status CognitiveEngine.emergency_stop has set to
\* "emergency_stopped" is not set to "completed" by a later step of its
\* execute_mission task.
C29_StoppedNeverCompleted ==
    [][C29_Step]_vars

\* The handler was given a safety check.
Checked == response.check # ReturnedNone

\* C30: the create and start handlers invoke the mission service, and the
\* start handler the execute_mission task, only after the safety check of
\* the same request returned approved=true; a check that does not approve is
\* answered with 403 and nothing is invoked, and the task is started only
\* after mission_service.start_mission.
C30_InvokedOnlyIfApproved ==
    (response.op \in {"create_mission", "start_mission"}) =>
        /\ response.invoked # {} =>
               (Checked /\ ~response.check.raised /\ response.check.approved = PyTrue)
        /\ (Checked /\ ~response.check.raised /\ response.check.approved # PyTrue) =>
               (response.status = 403 /\ response.invoked = {})
        /\ response.status = 200 => response.invoked # {}
        /\ "cognitive_engine.execute_mission" \in response.invoked =>
               "mission_service.start_mission" \in response.invoked

\* C30 witness: a create request for a mission the safety check refused was
\* answered with 403 and invoked nothing, while the task of a start request
\* approved before it is there.
C30_Witness ==
    /\ response.op = "create_mission"
    /\ response.status = 403
    /\ response.invoked = {}
    /\ ~response.check.raised
    /\ response.check.approved = PyFalse
    /\ ~emergency_stop_active
    /\ Len(tasks) > 0

====
